---------------------------- MODULE Spec2Model ----------------------------
(***************************************************************************)
(* git-anticipate: the session state machine and the resolution replay of  *)
(* src/main.go, over a model of the git repository the tool drives.        *)
(*                                                                         *)
(* One action per command line invocation (start, --continue, --abort,     *)
(* --status); every invocation runs to its return, except the start of    *)
(* StartStopped, whose process is stopped in its merge step.  The user's   *)
(* own work between invocations (editing files, git add) is the            *)
(* environment.  Further specifications: SpecRace, two start processes at *)
(* once, one step of startAnticipate at a time; SpecFrozen, the target     *)
(* branch moving during a session; SpecSessions, one session after         *)
(* another; SpecStore, saveState, readStateFile and removeState on their   *)
(* own; SpecRenamed, histories in which the target branch renamed a file;  *)
(* SpecCommitted, the user committing during a session; SpecMerge,         *)
(* performMerge on its own, with a git ls-files -u that may fail.          *)
(*                                                                         *)
(* Environment assumptions, stated once:                                   *)
(*  - the commands run at the top of a repository whose HEAD is attached   *)
(*    to the branch "feature" (Outside: a command run in no repository);   *)
(*  - the read-only git queries (status, diff, ls-files, rev-parse) answer *)
(*    truthfully (but for the ls-files of SpecMerge and the diff that      *)
(*    continue tests); the commands whose exit status the code tests       *)
(*    (merge, reset, add, commit, the file reads and writes) may fail;     *)
(*  - file contents are opaque values that git cannot merge textually: a   *)
(*    content conflict leaves our version of the file in the working tree; *)
(*    two contents are "similar" for git's rename detection exactly when   *)
(*    they are equal;                                                      *)
(*  - removing the session directory succeeds (the code discards the        *)
(*    result of os.RemoveAll);                                             *)
(*  - the histories of Init hold no rename between the merge base and      *)
(*    either branch, and those of InitRenamed only renames on the target   *)
(*    branch of files the current branch left alone, so the three-way      *)
(*    merge is per path.                                                   *)
(***************************************************************************)
EXTENDS Integers, Sequences, FiniteSets, TLC

VARIABLES
    repo,       \* the git repository: commits, head, dev, index, worktree, mergeHead
    stateDir,   \* .git/anticipate: [exists, files]
    last,       \* what the last invocation did and returned; retryOf: "CommitFailed"
                \* when it ran right after a continue whose commit failed; target:
                \* the branch argument of a start
    pre,        \* <<>> or <<[repo, merge]>>: the repository as it was when the last
                \* saving start began, and that start's merge result
    userOps,    \* counted user steps since the last invocation that changed something
    sessions,   \* starts that went as far as saving a session record
    race,       \* two start processes running at once: where each one is
    store       \* the session store used on its own: a session, what was loaded

vars == <<repo, stateDir, last, pre, userOps, sessions, race, store>>

----------------------------------------------------------------------------
(* Bounds of the model *)

MaxContent == 2     \* distinct file contents the branches and the user choose from
MaxCommits == 4     \* commits the repository may hold (Init holds three)
MaxSessions == 1    \* starts that go as far as saving a session record
MaxQuietOps == 1    \* user steps in a row while no session's merge is in progress

----------------------------------------------------------------------------
(* Values *)

Paths == {"a", "b"}

Absent == 0                       \* the path does not exist
Contents == 1..MaxContent
Unmerged == MaxContent + 1        \* an index entry with stages 1..3 instead of stage 0

FileStates == Contents \cup {Absent}
Trees == [Paths -> FileStates]

ExitSuccess == 0
ExitConflictsFound == 1
ExitError == 2

CurrentBranch == "feature"
TargetArgs == {"dev", "feature", "nope"}

StateFileNames == {"target", "orig_head", "target_sha", "current_branch"}
NoFiles == [n \in StateFileNames |-> <<>>]
NoStateDir == [exists |-> FALSE, files |-> NoFiles]

----------------------------------------------------------------------------
(* The commit graph *)

RECURSIVE Ancestors(_, _)
Ancestors(commits, c) ==
    {c} \cup UNION {Ancestors(commits, p) : p \in commits[c].parents}

SetMax(S) == CHOOSE x \in S : \A y \in S : y <= x

HeadTree(r) == r.commits[r.head].tree

\* git rev-parse <revision>: <<commit>> or <<>> when the name does not resolve
getRevisionSHA(r, revision) ==
    CASE revision = "HEAD" -> <<r.head>>
      [] revision = CurrentBranch -> <<r.head>>
      [] revision = "dev" -> <<r.dev>>
      [] OTHER -> <<>>

validateBranchExists(r, branch) == getRevisionSHA(r, branch) # <<>>

getCurrentBranch(r) == CurrentBranch

\* The name git prints for commit c: more characters than the short form
\* keeps, the first and the last of them telling the commits apart.
ShortLen == 8

shaText(c) == [i \in 1..(ShortLen + 2) |-> IF i \in {1, ShortLen + 2} THEN c ELSE 0]

UnknownSHA == <<-1>>

\* faulty variant: the name is used as it is
untruncatedSHA(sha) == sha

\* the first ShortLen characters of a longer name
truncateSHA(sha) ==
    IF Len(sha) > ShortLen THEN SubSeq(sha, 1, ShortLen)
    ELSE IF Len(sha) = 0 THEN UnknownSHA
    ELSE sha

\* "Preemptive conflict resolution vs <targetBranch>@<short targetSHA>"
commitMsg(targetBranch, targetSHA) ==
    [target |-> targetBranch, sha |-> truncateSHA(shaText(targetSHA))]

\* the message of a commit the tool did not make
NoMessage == [target |-> "", sha |-> <<>>]

\* git merge-base: the latest common ancestor, <<>> when there is none
getMergeBase(r, c1, c2) ==
    LET common == Ancestors(r.commits, c1) \cap Ancestors(r.commits, c2)
    IN  IF common = {} THEN <<>> ELSE <<SetMax(common)>>

----------------------------------------------------------------------------
(* Session store *)

\* faulty variant: the session counts as active only when its record is complete
isRecordComplete(sd) == sd.exists /\ \A n \in StateFileNames : sd.files[n] # <<>>

\* faulty variants: the directory is not looked at
isNeverInProgress(sd) == FALSE

isAlwaysInProgress(sd) == TRUE

isAnticipateInProgress(sd) == sd.exists

\* faulty variant: the record is not written yet when the call returns
saveStateLate(sd, targetBranch, origHead, targetSHA, currentBranch, mkdirOk, written) ==
    [sd |-> sd, ok |-> mkdirOk /\ written = StateFileNames]

\* os.MkdirAll, then one os.WriteFile per field in map order (any order):
\* `written` is the set of files written before the first failing write.
saveState(sd, targetBranch, origHead, targetSHA, currentBranch, mkdirOk, written) ==
    LET files == [n \in StateFileNames |->
                    CASE n = "target" -> <<targetBranch>>
                      [] n = "orig_head" -> <<origHead>>
                      [] n = "target_sha" -> <<targetSHA>>
                      [] n = "current_branch" -> <<currentBranch>>]
    IN  IF ~mkdirOk
        THEN [sd |-> sd, ok |-> FALSE]
        ELSE [sd |-> [exists |-> TRUE,
                      files |-> [n \in StateFileNames |->
                                   IF n \in written THEN files[n] ELSE sd.files[n]]],
              ok |-> written = StateFileNames]

\* os.ReadFile of one field: <<value>> or <<>> on error
\* strings.TrimSpace: the text without the white space around it.  A text
\* is a name of Names with white space of Whites before and after it.
Whites == {"", " ", "  "}

Names == TargetArgs \cup {CurrentBranch, ":/fix", ""}

TrimSpace(text) ==
    IF \E n \in Names, l \in Whites, t \in Whites : text = l \o n \o t
    THEN CHOOSE n \in Names : \E l \in Whites, t \in Whites : text = l \o n \o t
    ELSE text

\* the fields that hold a name; the other two hold a commit, whose name as
\* git prints it has no white space around it
NameFields == {"target", "current_branch"}

\* os.ReadFile of one field, trimmed: <<value>> or <<>> on error
readStateFile(sd, name) ==
    IF ~sd.exists \/ sd.files[name] = <<>> THEN <<>>
    ELSE IF name \in NameFields THEN <<TrimSpace(sd.files[name][1])>>
    ELSE sd.files[name]

\* faulty variant: the files of the record are removed, the directory stays
removeStateFiles(sd) == [exists |-> sd.exists, files |-> NoFiles]

removeState(sd) == NoStateDir

----------------------------------------------------------------------------
(* git queries *)

\* faulty variant: git status --porcelain --untracked-files=no
hasUncommittedChangesTracked(r) ==
    \E p \in Paths :
        \/ r.index[p] # HeadTree(r)[p]
        \/ r.index[p] # Absent /\ r.worktree[p] # r.index[p]

\* git status --porcelain prints something: staged, unstaged or untracked
hasUncommittedChanges(r) ==
    \E p \in Paths : r.index[p] # HeadTree(r)[p] \/ r.worktree[p] # r.index[p]

\* faulty variant: the exit statuses of the two diffs are read the wrong way round
hasNoStagedOrUnstagedChanges(r) ==
    ~ \/ \E p \in Paths : r.index[p] # HeadTree(r)[p]
      \/ \E p \in Paths : r.index[p] # Absent /\ r.worktree[p] # r.index[p]

\* git diff --cached --quiet fails, or git diff --quiet fails
hasStagedOrUnstagedChanges(r) ==
    \/ \E p \in Paths : r.index[p] # HeadTree(r)[p]
    \/ \E p \in Paths : r.index[p] # Absent /\ r.worktree[p] # r.index[p]

\* git diff --name-only --diff-filter=U
getConflictingFiles(r) == {p \in Paths : r.index[p] = Unmerged}

\* faulty variant: a conflicted path whose file is gone counts as resolved
hasUnmergedFilesPresent(r) ==
    \E p \in Paths : r.index[p] = Unmerged /\ r.worktree[p] # Absent

\* git ls-files -u prints something
\* faulty variant: a git ls-files -u that fails counts as unmerged paths
hasUnmergedFilesOrFailed(r, queryOk) ==
    ~queryOk \/ \E p \in Paths : r.index[p] = Unmerged

\* git ls-files -u prints a line or more; false when the command fails
hasUnmergedFilesWhen(r, queryOk) ==
    queryOk /\ \E p \in Paths : r.index[p] = Unmerged

\* (the command answering)
hasUnmergedFiles(r) == hasUnmergedFilesWhen(r, TRUE)

----------------------------------------------------------------------------
(* git merge <target> --no-commit --no-ff *)

ConflictMark == MaxContent + 2    \* three-way result of a path both sides changed differently

ThreeWay(b, o, t) ==
    IF o = t THEN o
    ELSE IF b = o THEN t
    ELSE IF b = t THEN o
    ELSE ConflictMark

\* [repo, ok]: ok is the command's exit status being zero.
gitMerge(r, targetBranch, cmdOk) ==
    LET rev == getRevisionSHA(r, targetBranch)
    IN  IF ~cmdOk \/ rev = <<>> \/ r.mergeHead # <<>>
        THEN [repo |-> r, ok |-> FALSE]
        ELSE
        LET t == rev[1]
            mb == getMergeBase(r, r.head, t)
        IN  IF mb = <<>> THEN [repo |-> r, ok |-> FALSE]
            ELSE IF t \in Ancestors(r.commits, r.head)
            THEN [repo |-> r, ok |-> TRUE]       \* Already up to date
            ELSE
            LET ours == HeadTree(r)
                theirs == r.commits[t].tree
                base == r.commits[mb[1]].tree
                m == [p \in Paths |-> ThreeWay(base[p], ours[p], theirs[p])]
                touched == {p \in Paths : m[p] # ours[p]}
                dirty == \/ \E p \in Paths : r.index[p] # ours[p]
                         \/ \E p \in touched : r.worktree[p] # r.index[p]
            IN  IF dirty THEN [repo |-> r, ok |-> FALSE]
                ELSE [repo |->
                        [r EXCEPT
                           !.index = [p \in Paths |->
                               IF m[p] = ConflictMark THEN Unmerged ELSE m[p]],
                           !.worktree = [p \in Paths |->
                               IF p \notin touched THEN r.worktree[p]
                               ELSE IF m[p] # ConflictMark THEN m[p]
                               ELSE IF ours[p] = Absent THEN theirs[p]
                               ELSE ours[p]],
                           !.mergeHead = <<t>>],
                      ok |-> \A p \in Paths : m[p] # ConflictMark]

\* git merge stopped part-way.  The index file is replaced in one rename, the
\* files of the working tree are written one by one, and MERGE_HEAD is written
\* at some point of the command: `indexed` and `marked` say whether the new
\* index and MERGE_HEAD are in place, `inTree` which files are.
gitMergeStopped(r, targetBranch, indexed, inTree, marked) ==
    LET g == gitMerge(r, targetBranch, TRUE).repo
    IN  [r EXCEPT
           !.index = IF indexed THEN g.index ELSE r.index,
           !.worktree = [p \in Paths |->
               IF p \in inTree THEN g.worktree[p] ELSE r.worktree[p]],
           !.mergeHead = IF marked THEN g.mergeHead ELSE r.mergeHead]

MergeClean == "MergeClean"
MergeConflict == "MergeConflict"
MergeStopped == "MergeStopped"
MergeError == "MergeError"

\* faulty variant: git merge without --no-commit, a clean merge is committed
performMergeCommitting(r, targetBranch, cmdOk) ==
    LET g == gitMerge(r, targetBranch, cmdOk)
    IN  IF ~g.ok
        THEN IF hasUnmergedFiles(g.repo)
             THEN [repo |-> g.repo, result |-> MergeConflict]
             ELSE [repo |-> g.repo, result |-> MergeError]
        ELSE IF g.repo.mergeHead = <<>>
        THEN [repo |-> g.repo, result |-> MergeClean]
        ELSE [repo |-> [g.repo EXCEPT
                          !.commits = Append(g.repo.commits,
                              [tree |-> g.repo.index,
                               parents |-> {g.repo.head, g.repo.mergeHead[1]},
                               msg |-> NoMessage]),
                          !.head = Len(g.repo.commits) + 1,
                          !.mergeHead = <<>>],
              result |-> MergeClean]

\* faulty variant: a failed merge command is an error, conflicts or not
performMergeUnchecked(r, targetBranch, cmdOk) ==
    LET g == gitMerge(r, targetBranch, cmdOk)
    IN  [repo |-> g.repo, result |-> IF g.ok THEN MergeClean ELSE MergeError]

\* faulty variant: a merge that stopped on conflicts is undone before it is reported
performMergeAborting(r, targetBranch, cmdOk) ==
    LET g == gitMerge(r, targetBranch, cmdOk)
    IN  IF ~g.ok
        THEN IF hasUnmergedFiles(g.repo)
             THEN [repo |-> r, result |-> MergeConflict]
             ELSE [repo |-> g.repo, result |-> MergeError]
        ELSE [repo |-> g.repo, result |-> MergeClean]

\* [repo, result, ok]; ok: git merge exited with status 0
performMergeWhen(r, targetBranch, cmdOk, queryOk) ==
    LET g == gitMerge(r, targetBranch, cmdOk)
    IN  IF ~g.ok
        THEN IF hasUnmergedFilesWhen(g.repo, queryOk)
             THEN [repo |-> g.repo, result |-> MergeConflict, ok |-> g.ok]
             ELSE [repo |-> g.repo, result |-> MergeError, ok |-> g.ok]
        ELSE [repo |-> g.repo, result |-> MergeClean, ok |-> g.ok]

\* [repo, result]
performMerge(r, targetBranch, cmdOk) ==
    LET g == gitMerge(r, targetBranch, cmdOk)
    IN  IF ~g.ok
        THEN IF hasUnmergedFiles(g.repo)
             THEN [repo |-> g.repo, result |-> MergeConflict]
             ELSE [repo |-> g.repo, result |-> MergeError]
        ELSE [repo |-> g.repo, result |-> MergeClean]

----------------------------------------------------------------------------
(* What an invocation reports *)

NoContents == [p \in Paths |-> Absent]

Report(op, exit, err, steps) ==
    [op |-> op, exit |-> exit, err |-> err, steps |-> steps, merge |-> "",
     changed |-> {}, deleted |-> {}, contents |-> NoContents, retryOf |-> "",
     target |-> ""]

\* a start that ran the merge also reports performMerge's result
StartReport(exit, err, steps, merge) ==
    [Report("start", exit, err, steps) EXCEPT !.merge = merge]

----------------------------------------------------------------------------
(* startAnticipate *)

\* [sd, repo, last]
startAnticipate(sd, r, targetBranch, mkdirOk, written, mergeOk) ==
    IF isAnticipateInProgress(sd)
    THEN [sd |-> sd, repo |-> r,
          last |-> Report("start", ExitError, "SessionAlreadyActive", <<>>)]
    ELSE IF hasUncommittedChanges(r)
    THEN [sd |-> sd, repo |-> r,
          last |-> Report("start", ExitError, "DirtyWorkingTree", <<>>)]
    ELSE IF ~validateBranchExists(r, targetBranch)
    THEN [sd |-> sd, repo |-> r,
          last |-> Report("start", ExitError, "UnknownRef", <<>>)]
    ELSE
    LET currentBranch == getCurrentBranch(r)
        origHead == getRevisionSHA(r, "HEAD")[1]
        targetSHA == getRevisionSHA(r, targetBranch)[1]
        baseSHA == getMergeBase(r, targetSHA, origHead)
    IN  IF baseSHA = <<>>
        THEN [sd |-> sd, repo |-> r,
              last |-> Report("start", ExitError, "NoMergeBase", <<>>)]
        ELSE
        LET s == saveState(sd, targetBranch, origHead, targetSHA, currentBranch,
                           mkdirOk, written)
        IN  IF ~s.ok
            THEN [sd |-> s.sd, repo |-> r,
                  last |-> Report("start", ExitError, "SaveFailed", <<"saveState">>)]
            ELSE
            LET m == performMerge(r, targetBranch, mergeOk)
            IN  CASE m.result = MergeConflict ->
                       [sd |-> s.sd, repo |-> m.repo,
                        last |-> StartReport(ExitConflictsFound, "Conflicts",
                                             <<"saveState", "merge">>, m.result)]
                  [] m.result = MergeError ->
                       [sd |-> removeState(s.sd), repo |-> m.repo,
                        last |-> StartReport(ExitError, "MergeFailed",
                                             <<"saveState", "merge", "removeState">>,
                                             m.result)]
                  [] m.result = MergeClean ->
                       IF ~hasStagedOrUnstagedChanges(m.repo)
                       THEN [sd |-> removeState(s.sd), repo |-> m.repo,
                             last |-> StartReport(ExitSuccess, "",
                                             <<"saveState", "merge", "removeState">>,
                                             m.result)]
                       ELSE [sd |-> s.sd, repo |-> m.repo,
                             last |-> StartReport(ExitSuccess, "",
                                             <<"saveState", "merge">>, m.result)]

\* [sd, repo, last]: a start whose process stops once saveState has returned,
\* before git merge is run (nothing of the merge in place), while it runs, or
\* when it has finished; none of the code after performMerge is executed.
\* Called where the preconditions of startAnticipate hold.
startStopped(sd, r, targetBranch, indexed, inTree, marked) ==
    LET currentBranch == getCurrentBranch(r)
        origHead == getRevisionSHA(r, "HEAD")[1]
        targetSHA == getRevisionSHA(r, targetBranch)[1]
        s == saveState(sd, targetBranch, origHead, targetSHA, currentBranch,
                       TRUE, StateFileNames)
    IN  [sd |-> s.sd,
         repo |-> gitMergeStopped(r, targetBranch, indexed, inTree, marked),
         last |-> StartReport(ExitError, "Stopped", <<"saveState", "merge">>,
                              MergeStopped)]

----------------------------------------------------------------------------
(* git commands that change the repository *)

\* git merge --abort fails, and changes nothing, when no merge is in progress or
\* when a path staged differently from HEAD has unstaged changes; otherwise
\* every path whose index entry differs from HEAD goes back to HEAD.
gitMergeAbort(r) ==
    LET h == HeadTree(r)
        refused == \E p \in Paths :
                      /\ r.index[p] # Unmerged
                      /\ r.index[p] # h[p]
                      /\ r.worktree[p] # r.index[p]
    IN  IF r.mergeHead = <<>> \/ refused
        THEN r
        ELSE [r EXCEPT
                !.index = h,
                !.worktree = [p \in Paths |->
                    IF r.index[p] # h[p] THEN h[p] ELSE r.worktree[p]],
                !.mergeHead = <<>>]

\* exec "git merge --abort", exit status ignored
abortMerge(r) == gitMergeAbort(r)

\* faulty variant: git reset <c> without --hard leaves the working tree alone
gitResetMixed(r, c) ==
    [r EXCEPT !.head = c, !.index = r.commits[c].tree, !.mergeHead = <<>>]

\* git reset --hard <c>: the branch, the index and every tracked file go to c;
\* untracked files stay; the merge state is removed.
gitResetHard(r, c) ==
    LET t == r.commits[c].tree
    IN  [r EXCEPT
           !.head = c,
           !.index = t,
           !.worktree = [p \in Paths |->
               IF t[p] # Absent \/ r.index[p] # Absent THEN t[p] ELSE r.worktree[p]],
           !.mergeHead = <<>>]

\* git add -u: every tracked path's index entry becomes its working-tree state
gitAddU(r) ==
    [r EXCEPT !.index = [p \in Paths |->
        IF r.index[p] # Absent THEN r.worktree[p] ELSE Absent]]

\* git add <p>
gitAdd(r, p) == [r EXCEPT !.index[p] = r.worktree[p]]

\* git rm --cached --ignore-unmatch <p>
gitRmCached(r, p) == [r EXCEPT !.index[p] = Absent]

\* faulty variant: the exit status of git commit is not looked at
gitCommitUnchecked(r, msg, cmdOk) ==
    IF \/ ~cmdOk
       \/ hasUnmergedFiles(r)
       \/ (r.mergeHead = <<>> /\ r.index = HeadTree(r))
    THEN [repo |-> r, ok |-> TRUE]
    ELSE [repo |-> [r EXCEPT
                      !.commits = Append(r.commits,
                          [tree |-> r.index,
                           parents |-> {r.head} \cup {r.mergeHead[i] :
                                                       i \in 1..Len(r.mergeHead)},
                           msg |-> msg]),
                      !.head = Len(r.commits) + 1,
                      !.mergeHead = <<>>],
          ok |-> TRUE]

\* git commit -m <msg>: [repo, ok]; nothing to commit, or unmerged entries, fail
gitCommit(r, msg, cmdOk) ==
    IF \/ ~cmdOk
       \/ hasUnmergedFiles(r)
       \/ (r.mergeHead = <<>> /\ r.index = HeadTree(r))
    THEN [repo |-> r, ok |-> FALSE]
    ELSE [repo |-> [r EXCEPT
                      !.commits = Append(r.commits,
                          [tree |-> r.index,
                           parents |-> {r.head} \cup {r.mergeHead[i] :
                                                       i \in 1..Len(r.mergeHead)},
                           msg |-> msg]),
                      !.head = Len(r.commits) + 1,
                      !.mergeHead = <<>>],
          ok |-> TRUE]

----------------------------------------------------------------------------
(* git diff --cached --name-only, with git's default rename detection: a path  *)
(* deleted from HEAD whose content is added under another path is listed under *)
(* the new path only.                                                          *)

DiffCached(r) == {p \in Paths : r.index[p] # HeadTree(r)[p]}

RenameSources(r) ==
    {d \in Paths :
        /\ HeadTree(r)[d] # Absent
        /\ r.index[d] = Absent
        /\ \E q \in Paths : HeadTree(r)[q] = Absent /\ r.index[q] = HeadTree(r)[d]}

\* git diff --cached --name-only
changedFilesOf(r) == DiffCached(r) \ RenameSources(r)

\* faulty variant: the deleted paths are listed with rename detection off
deletedFilesOfNoRenames(r) == {p \in DiffCached(r) : r.index[p] = Absent}

\* git diff --cached --name-only --diff-filter=D
deletedFilesOf(r) == {p \in changedFilesOf(r) : r.index[p] = Absent}

\* the order in which git lists paths
PathOrder == <<"a", "b">>

----------------------------------------------------------------------------
(* continueAnticipate *)

ContinueReport(exit, err, steps, changed, deleted, contents) ==
    [op |-> "continue", exit |-> exit, err |-> err, steps |-> steps, merge |-> "",
     changed |-> changed, deleted |-> deleted, contents |-> contents, retryOf |-> "",
     target |-> ""]

\* faulty variant: the files are read once the merge is discarded and the
\* working tree is reset
captureContentsLate(r, changedFiles, deletedFiles, readOk) ==
    LET late == gitResetHard(abortMerge(r), r.head)
    IN  [contents |-> [p \in Paths |->
                         IF p \in changedFiles \ deletedFiles
                         THEN late.worktree[p] ELSE Absent],
         ok |-> readOk /\ \A p \in changedFiles \ deletedFiles : r.worktree[p] # Absent]

\* the loop of lines 296-305: [contents, ok]
captureContents(r, changedFiles, deletedFiles, readOk) ==
    [contents |-> [p \in Paths |->
                     IF p \in changedFiles \ deletedFiles THEN r.worktree[p] ELSE Absent],
     ok |-> readOk /\ \A p \in changedFiles \ deletedFiles : r.worktree[p] # Absent]

\* faulty variant: the captured contents are not written back
writeBackSkipped(r, captured, contents, done) == [repo |-> r, ok |-> TRUE]

\* the loop of lines 318-327: the files of `done` are written, then one write
\* fails if `done` does not hold every captured path
writeBack(r, captured, contents, done) ==
    [repo |-> [r EXCEPT !.worktree = [p \in Paths |->
                 IF p \in captured \cap done THEN contents[p] ELSE r.worktree[p]]],
     ok |-> captured \subseteq done]

\* faulty variant: the deleted files are left in the working tree
removeDeletedSkipped(r, deletedFiles) == r

\* the loop of lines 330-332
removeDeleted(r, deletedFiles) ==
    [r EXCEPT !.worktree = [p \in Paths |->
        IF p \in deletedFiles THEN Absent ELSE r.worktree[p]]]

\* the loop of lines 335-346, in git's path order; the first git add of a path
\* outside `done` fails
RECURSIVE stageChanged(_, _, _, _, _)
stageChanged(r, changedFiles, deletedFiles, done, i) ==
    IF i > Len(PathOrder) THEN [repo |-> r, ok |-> TRUE]
    ELSE LET f == PathOrder[i]
         IN  IF f \notin changedFiles
             THEN stageChanged(r, changedFiles, deletedFiles, done, i + 1)
             ELSE IF f \in deletedFiles
             THEN stageChanged(gitRmCached(r, f), changedFiles, deletedFiles, done, i + 1)
             ELSE IF f \notin done \/ r.worktree[f] = Absent
             THEN [repo |-> r, ok |-> FALSE]
             ELSE stageChanged(gitAdd(r, f), changedFiles, deletedFiles, done, i + 1)

\* lines 307-364: discard the merge, reset, replay, commit.  [sd, repo, last]
replayResolution(sd, r, targetBranch, targetSHA, origHead, changedFiles, deletedFiles, contents, fault, done) ==
    LET captured == changedFiles \ deletedFiles
        r1 == abortMerge(r)
    IN  IF fault = "reset"
        THEN [sd |-> sd, repo |-> r1,
              last |-> ContinueReport(ExitError, "ResetFailed",
                          <<"addU", "capture", "abortMerge">>,
                          changedFiles, deletedFiles, contents)]
        ELSE
        LET r2 == gitResetHard(r1, origHead)
            w == writeBack(r2, captured, contents,
                           IF fault = "write" THEN done ELSE Paths)
        IN  IF ~w.ok
            THEN [sd |-> sd, repo |-> w.repo,
                  last |-> ContinueReport(ExitError, "WriteFileFailed",
                              <<"addU", "capture", "abortMerge", "reset", "write">>,
                              changedFiles, deletedFiles, contents)]
            ELSE
            LET r3 == removeDeleted(w.repo, deletedFiles)
                st == stageChanged(r3, changedFiles, deletedFiles,
                                   IF fault = "stage" THEN done ELSE Paths, 1)
            IN  IF ~st.ok
                THEN [sd |-> sd, repo |-> st.repo,
                      last |-> ContinueReport(ExitError, "StageFailed",
                                  <<"addU", "capture", "abortMerge", "reset", "write",
                                    "remove", "stage">>,
                                  changedFiles, deletedFiles, contents)]
                ELSE
                LET c == gitCommit(st.repo, commitMsg(targetBranch, targetSHA),
                                   fault # "commit")
                IN  IF ~c.ok
                    THEN [sd |-> sd, repo |-> c.repo,
                          last |-> ContinueReport(ExitError, "CommitFailed",
                                      <<"addU", "capture", "abortMerge", "reset", "write",
                                        "remove", "stage", "commit">>,
                                      changedFiles, deletedFiles, contents)]
                    ELSE [sd |-> removeState(sd), repo |-> c.repo,
                          last |-> ContinueReport(ExitSuccess, "",
                                      <<"addU", "capture", "abortMerge", "reset", "write",
                                        "remove", "stage", "commit", "removeState">>,
                                      changedFiles, deletedFiles, contents)]

\* faulty variant: git add -u is run before the unmerged paths are looked for
continueAnticipateStagingFirst(sd, r, noVerify, fault, done) ==
    IF ~isAnticipateInProgress(sd)
    THEN [sd |-> sd, repo |-> r,
          last |-> Report("continue", ExitError, "NoSession", <<>>)]
    ELSE IF hasUnmergedFiles(r)
    THEN [sd |-> sd, repo |-> gitAddU(r),
          last |-> Report("continue", ExitConflictsFound, "Conflicts", <<>>)]
    ELSE IF \E n \in StateFileNames : readStateFile(sd, n) = <<>>
    THEN [sd |-> sd, repo |-> r,
          last |-> Report("continue", ExitError, "ReadStateFailed", <<>>)]
    ELSE
    LET targetBranch == readStateFile(sd, "target")[1]
        targetSHA == readStateFile(sd, "target_sha")[1]
        origHead == readStateFile(sd, "orig_head")[1]
        r1 == gitAddU(r)
        changedFiles == changedFilesOf(r1)
        deletedFiles == deletedFilesOf(r1)
    IN  IF fault = "diff"
        THEN [sd |-> sd, repo |-> r1,
              last |-> Report("continue", ExitError, "DiffFailed", <<"addU">>)]
        ELSE IF changedFiles = {}
        THEN [sd |-> removeState(sd), repo |-> abortMerge(r1),
              last |-> Report("continue", ExitSuccess, "",
                              <<"addU", "abortMerge", "removeState">>)]
        ELSE
        LET cap == captureContents(r1, changedFiles, deletedFiles, fault # "read")
        IN  IF ~cap.ok
            THEN [sd |-> sd, repo |-> r1,
                  last |-> ContinueReport(ExitError, "ReadFileFailed", <<"addU">>,
                              changedFiles, deletedFiles, NoContents)]
            ELSE replayResolution(sd, r1, targetBranch, targetSHA, origHead,
                                  changedFiles, deletedFiles,
                                  cap.contents,
                                  IF fault = "hook"
                                  THEN (IF noVerify THEN "none" ELSE "commit")
                                  ELSE fault,
                                  done)

\* [sd, repo, last].  fault: the step that fails, "none" when none does; a
\* pre-commit hook ("hook") rejects the commit unless noVerify.
continueAnticipate(sd, r, noVerify, fault, done) ==
    IF ~isAnticipateInProgress(sd)
    THEN [sd |-> sd, repo |-> r,
          last |-> Report("continue", ExitError, "NoSession", <<>>)]
    ELSE IF hasUnmergedFiles(r)
    THEN [sd |-> sd, repo |-> r,
          last |-> Report("continue", ExitConflictsFound, "Conflicts", <<>>)]
    ELSE IF \E n \in StateFileNames : readStateFile(sd, n) = <<>>
    THEN [sd |-> sd, repo |-> r,
          last |-> Report("continue", ExitError, "ReadStateFailed", <<>>)]
    ELSE
    LET targetBranch == readStateFile(sd, "target")[1]
        targetSHA == readStateFile(sd, "target_sha")[1]
        origHead == readStateFile(sd, "orig_head")[1]
        r1 == gitAddU(r)
        changedFiles == changedFilesOf(r1)
        deletedFiles == deletedFilesOf(r1)
    IN  IF fault = "diff"
        THEN [sd |-> sd, repo |-> r1,
              last |-> Report("continue", ExitError, "DiffFailed", <<"addU">>)]
        ELSE IF changedFiles = {}
        THEN [sd |-> removeState(sd), repo |-> abortMerge(r1),
              last |-> Report("continue", ExitSuccess, "",
                              <<"addU", "abortMerge", "removeState">>)]
        ELSE
        LET cap == captureContents(r1, changedFiles, deletedFiles, fault # "read")
        IN  IF ~cap.ok
            THEN [sd |-> sd, repo |-> r1,
                  last |-> ContinueReport(ExitError, "ReadFileFailed", <<"addU">>,
                              changedFiles, deletedFiles, NoContents)]
            ELSE replayResolution(sd, r1, targetBranch, targetSHA, origHead,
                                  changedFiles, deletedFiles,
                                  cap.contents,
                                  IF fault = "hook"
                                  THEN (IF noVerify THEN "none" ELSE "commit")
                                  ELSE fault,
                                  done)

----------------------------------------------------------------------------
(* abortAnticipate *)

\* faulty variant: the session record is removed before the reset is run
abortAnticipateClearingFirst(sd, r, resetOk) ==
    IF ~isAnticipateInProgress(sd)
    THEN [sd |-> sd, repo |-> r,
          last |-> Report("abort", ExitError, "NoSession", <<>>)]
    ELSE
    LET r1 == abortMerge(r)
        origHead == readStateFile(sd, "orig_head")
    IN  IF origHead = <<>>
        THEN [sd |-> sd, repo |-> r1,
              last |-> Report("abort", ExitError, "ReadStateFailed", <<"abortMerge">>)]
        ELSE IF ~resetOk
        THEN [sd |-> removeState(sd), repo |-> r1,
              last |-> Report("abort", ExitError, "ResetFailed",
                              <<"abortMerge", "removeState">>)]
        ELSE [sd |-> removeState(sd), repo |-> gitResetHard(r1, origHead[1]),
              last |-> Report("abort", ExitSuccess, "",
                              <<"abortMerge", "removeState", "reset">>)]

\* [sd, repo, last]
abortAnticipate(sd, r, resetOk) ==
    IF ~isAnticipateInProgress(sd)
    THEN [sd |-> sd, repo |-> r,
          last |-> Report("abort", ExitError, "NoSession", <<>>)]
    ELSE
    LET r1 == abortMerge(r)
        origHead == readStateFile(sd, "orig_head")
    IN  IF origHead = <<>>
        THEN [sd |-> sd, repo |-> r1,
              last |-> Report("abort", ExitError, "ReadStateFailed", <<"abortMerge">>)]
        ELSE IF ~resetOk
        THEN [sd |-> sd, repo |-> r1,
              last |-> Report("abort", ExitError, "ResetFailed", <<"abortMerge">>)]
        ELSE [sd |-> removeState(sd), repo |-> gitResetHard(r1, origHead[1]),
              last |-> Report("abort", ExitSuccess, "",
                              <<"abortMerge", "reset", "removeState">>)]

----------------------------------------------------------------------------
(* showStatus *)

\* faulty variant: a record whose fields cannot all be read is cleared
showStatusClearing(sd, r) ==
    [sd |-> IF sd.exists /\ \E n \in StateFileNames : readStateFile(sd, n) = <<>>
            THEN removeState(sd) ELSE sd,
     repo |-> r, last |-> Report("status", ExitSuccess, "", <<>>)]

\* faulty variant: a field that cannot be read is an error
showStatusStrict(sd, r) ==
    IF sd.exists /\ \E n \in StateFileNames : readStateFile(sd, n) = <<>>
    THEN [sd |-> sd, repo |-> r,
          last |-> Report("status", ExitError, "ReadStateFailed", <<>>)]
    ELSE [sd |-> sd, repo |-> r, last |-> Report("status", ExitSuccess, "", <<>>)]

\* [sd, repo, last]
showStatus(sd, r) ==
    [sd |-> sd, repo |-> r, last |-> Report("status", ExitSuccess, "", <<>>)]

----------------------------------------------------------------------------
(* runAnticipate: the repository check in front of every handler *)

\* git rev-parse --git-dir succeeds
validateRepo(inRepo) == inRepo

\* [sd, repo, last]: `handled` is the result of the handler the flags select
runAnticipate(sd, r, inRepo, op, handled) ==
    IF ~validateRepo(inRepo)
    THEN [sd |-> sd, repo |-> r,
          last |-> Report(op, ExitError, "NotARepository", <<>>)]
    ELSE handled

----------------------------------------------------------------------------
(* The user, between invocations *)

\* While the merge of a session whose start ran to its end is in progress the
\* user works freely; otherwise the model follows MaxQuietOps user steps
\* between two invocations that change something.
Resolving ==
    /\ repo.mergeHead # <<>>
    /\ stateDir.exists
    /\ pre # <<>> /\ pre[1].merge # MergeStopped

UserMay == Resolving \/ userOps < MaxQuietOps

UserDone ==
    /\ last' = Report("user", ExitSuccess, "", <<>>)
    /\ pre' = IF stateDir.exists THEN pre ELSE <<>>
    /\ userOps' = IF Resolving THEN userOps ELSE userOps + 1
    /\ UNCHANGED <<stateDir, sessions, race, store>>

\* the user writes or deletes a file
UserEdit(p, c) ==
    /\ UserMay
    /\ repo.worktree[p] # c
    /\ repo' = [repo EXCEPT !.worktree[p] = c]
    /\ UserDone

\* git add <p>: stages the file, or its removal
UserAdd(p) ==
    /\ UserMay
    /\ repo.index[p] # repo.worktree[p]
    /\ repo' = [repo EXCEPT !.index[p] = repo.worktree[p]]
    /\ UserDone

\* git commit, run by the user while a session record exists: it concludes
\* the merge in progress, or commits what is staged
UserCommit ==
    /\ stateDir.exists
    /\ Len(repo.commits) < MaxCommits + 1
    /\ \E c \in {gitCommit(repo, NoMessage, TRUE)} :
          /\ c.ok
          /\ repo' = c.repo
    /\ last' = Report("user", ExitSuccess, "", <<>>)
    /\ UNCHANGED <<stateDir, pre, userOps, sessions, race, store>>

----------------------------------------------------------------------------
(* Invocations *)

\* the session's rollback snapshot is kept while a record exists, and for the
\* one state after the invocation that removes it
KeepPre == IF stateDir.exists THEN pre ELSE <<>>

\* the invocation changed neither the repository nor the session record
Quiet(out) == out.repo = repo /\ out.sd = stateDir

\* A fault the run never reaches gives the run without the fault: the model
\* follows a faulty input only where the run reaches the faulty step and the
\* fault decides the outcome.
Reached(out, step) == \E i \in 1..Len(out.last.steps) : out.last.steps[i] = step

StartFaultReachable(mkdirOk, written, mergeOk) ==
    (~mkdirOk \/ ~mergeOk \/ written # StateFileNames)
        => (~stateDir.exists /\ ~hasUncommittedChanges(repo))

StartFaultBites(out, mkdirOk, written, mergeOk) ==
    /\ (~mkdirOk \/ written # StateFileNames) => out.last.err = "SaveFailed"
    /\ ~mergeOk => out.last.err = "MergeFailed"

\* (faults of continue are followed in sessions whose start ran to its end)
ContinueFaultReachable(noVerify, fault) ==
    /\ noVerify => fault \in {"none", "hook"}
    /\ (noVerify \/ fault # "none") => (stateDir.exists /\ ~hasUnmergedFiles(repo))
    /\ (noVerify \/ fault # "none") => (pre # <<>> /\ pre[1].merge # MergeStopped)

ContinueFaultBites(out, fault) ==
    /\ fault = "diff" => out.last.err = "DiffFailed"
    /\ fault = "read" => out.last.err = "ReadFileFailed"
    /\ fault = "reset" => out.last.err = "ResetFailed"
    /\ fault = "write" => out.last.err = "WriteFileFailed"
    /\ fault = "stage" => out.last.err = "StageFailed"
    /\ fault = "commit" => out.last.err = "CommitFailed"
    /\ fault = "hook" => Reached(out, "commit")

\* An invocation runs to its return: `out` is the handler's result.  Starts
\* that go as far as saving a record are followed up to `cap` of them.
StartWithin(cap, targetBranch, mkdirOk, written, mergeOk) ==
    /\ StartFaultReachable(mkdirOk, written, mergeOk)
    /\ \E out \in {runAnticipate(stateDir, repo, TRUE, "start",
                        startAnticipate(stateDir, repo, targetBranch,
                                        mkdirOk, written, mergeOk))} :
          /\ Reached(out, "saveState") => sessions < cap
          /\ StartFaultBites(out, mkdirOk, written, mergeOk)
          /\ repo' = out.repo
          /\ stateDir' = out.sd
          /\ last' = [out.last EXCEPT !.target = targetBranch]
          /\ pre' = IF Reached(out, "saveState")
                    THEN <<[repo |-> repo, merge |-> out.last.merge]>>
                    ELSE KeepPre
          /\ userOps' = IF Quiet(out) THEN userOps ELSE 0
          /\ sessions' = IF Reached(out, "saveState") THEN sessions + 1 ELSE sessions
          /\ UNCHANGED <<race, store>>

Start(targetBranch, mkdirOk, written, mergeOk) ==
    StartWithin(MaxSessions, targetBranch, mkdirOk, written, mergeOk)

\* a start in a run that follows one session more
StartNext(targetBranch) ==
    StartWithin(MaxSessions + 1, targetBranch, TRUE, StateFileNames, TRUE)

\* git anticipate <branch>, the process stopping during the merge step
StartStopped(targetBranch, indexed, inTree, marked) ==
    /\ sessions < MaxSessions
    /\ ~isAnticipateInProgress(stateDir)
    /\ ~hasUncommittedChanges(repo)
    /\ validateBranchExists(repo, targetBranch)
    /\ getMergeBase(repo, getRevisionSHA(repo, targetBranch)[1], repo.head) # <<>>
    /\ \E out \in {startStopped(stateDir, repo, targetBranch,
                                indexed, inTree, marked)} :
          /\ repo' = out.repo
          /\ stateDir' = out.sd
          /\ last' = [out.last EXCEPT !.target = targetBranch]
          /\ pre' = <<[repo |-> repo, merge |-> out.last.merge]>>
          /\ userOps' = 0
          /\ sessions' = sessions + 1
          /\ UNCHANGED <<race, store>>

\* The target branch is moved to another commit while a session is open
\* (a fetch, a push by somebody else, a reset of the branch).
TargetMoves(c) ==
    /\ stateDir.exists
    /\ c \in 1..Len(repo.commits)
    /\ c # repo.dev
    /\ repo' = [repo EXCEPT !.dev = c]
    /\ last' = Report("user", ExitSuccess, "", <<>>)
    /\ UNCHANGED <<stateDir, pre, userOps, sessions, race, store>>

\* git anticipate --continue, followed while the repository holds at most
\* `cap` commits
ContinueWithin(cap, noVerify, fault, done) ==
    /\ ContinueFaultReachable(noVerify, fault)
    /\ \E out \in {runAnticipate(stateDir, repo, TRUE, "continue",
                        continueAnticipate(stateDir, repo, noVerify, fault, done))} :
          /\ Len(out.repo.commits) <= cap
          /\ ContinueFaultBites(out, fault)
          /\ repo' = out.repo
          /\ stateDir' = out.sd
          /\ last' = [out.last EXCEPT
                         !.retryOf = IF last.op = "continue" /\ last.err = "CommitFailed"
                                     THEN last.err ELSE ""]
          /\ pre' = KeepPre
          /\ userOps' = IF Quiet(out) THEN userOps ELSE 0
          /\ UNCHANGED <<sessions, race, store>>

Continue(noVerify, fault, done) == ContinueWithin(MaxCommits, noVerify, fault, done)

\* a continue in a run in which the user has made a commit of their own
ContinueNext(noVerify) == ContinueWithin(MaxCommits + 1, noVerify, "none", Paths)

Abort(resetOk) ==
    \E out \in {runAnticipate(stateDir, repo, TRUE, "abort",
                     abortAnticipate(stateDir, repo, resetOk))} :
        /\ ~resetOk => out.last.err = "ResetFailed"
        /\ repo' = out.repo
        /\ stateDir' = out.sd
        /\ last' = out.last
        /\ pre' = KeepPre
        /\ userOps' = IF Quiet(out) THEN userOps ELSE 0
        /\ UNCHANGED <<sessions, race, store>>

Status ==
    \E out \in {runAnticipate(stateDir, repo, TRUE, "status",
                     showStatus(stateDir, repo))} :
        /\ repo' = out.repo
        /\ stateDir' = out.sd
        /\ last' = out.last
        /\ pre' = KeepPre
        /\ userOps' = IF Quiet(out) THEN userOps ELSE 0
        /\ UNCHANGED <<sessions, race, store>>

\* An invocation from a directory that is in no repository.  It reads and
\* changes nothing of this repository, whatever the state: the model follows
\* it as a first invocation only.
Commands == {"start", "continue", "abort", "status"}

Outside(op) ==
    /\ last.op = "none"
    /\ \E out \in {runAnticipate(stateDir, repo, FALSE, op,
                        showStatus(stateDir, repo))} :
          /\ repo' = out.repo
          /\ stateDir' = out.sd
          /\ last' = out.last
          /\ pre' = KeepPre
          /\ userOps' = IF Quiet(out) THEN userOps ELSE 0
          /\ UNCHANGED <<sessions, race, store>>

----------------------------------------------------------------------------
(* The session store on its own: save, load, clear *)

NoStore == [pc |-> "none", session |-> NoFiles, loaded |-> NoFiles]

StoreFrame == UNCHANGED <<repo, last, pre, userOps, sessions, race>>

\* saveState(stateDir, targetBranch, origHead, targetSHA, currentBranch)
StoreSave(mkdirOk, written) ==
    /\ store.pc = "start"
    /\ \E s \in {saveState(stateDir, store.session["target"][1],
                             store.session["orig_head"][1],
                             store.session["target_sha"][1],
                             store.session["current_branch"][1],
                             mkdirOk, written)} :
          /\ stateDir' = s.sd
          /\ store' = [store EXCEPT !.pc = IF s.ok THEN "saved" ELSE "failed"]
    /\ StoreFrame

\* readStateFile of each field
StoreLoad ==
    /\ store.pc = "saved"
    /\ store' = [store EXCEPT
                    !.pc = "loaded",
                    !.loaded = [n \in StateFileNames |-> readStateFile(stateDir, n)]]
    /\ UNCHANGED stateDir
    /\ StoreFrame

\* removeState(stateDir)
StoreClear ==
    /\ store.pc \in {"saved", "failed", "loaded"}
    /\ stateDir' = removeState(stateDir)
    /\ store' = [store EXCEPT !.pc = "cleared"]
    /\ StoreFrame

----------------------------------------------------------------------------
(* Two start processes at once, each one step of startAnticipate at a time *)

Procs == {"p1", "p2"}

Other(p) == CHOOSE q \in Procs : q # p

\* pc: the step the process is at; err: the error it returned; result: what
\* its performMerge returned; saved: its saveState returned without error;
\* overlapped: the other process was between its own session check and its
\* return when this one made its session check
Process(pc, targetBranch) ==
    [pc |-> pc, target |-> targetBranch, todo |-> {}, err |-> "", result |-> "",
     saved |-> FALSE, overlapped |-> FALSE]

NoRace == [p \in Procs |-> Process("none", "")]

RaceFrame == UNCHANGED <<last, pre, userOps, sessions, store>>

\* if isAnticipateInProgress(stateDir) { return ... }
RaceCheck(p) ==
    /\ race[p].pc = "check"
    /\ LET ov == race[Other(p)].pc \notin {"check", "done"}
       IN  race' = [race EXCEPT ![p] =
                 IF isAnticipateInProgress(stateDir)
                 THEN [@ EXCEPT !.pc = "done", !.err = "SessionAlreadyActive",
                                !.overlapped = ov]
                 ELSE [@ EXCEPT !.pc = "preconditions", !.overlapped = ov]]
    /\ UNCHANGED <<repo, stateDir>>
    /\ RaceFrame

\* the uncommitted-changes check and the revisions
RacePreconditions(p) ==
    /\ race[p].pc = "preconditions"
    /\ race' = [race EXCEPT ![p] =
          IF hasUncommittedChanges(repo)
          THEN [@ EXCEPT !.pc = "done", !.err = "DirtyWorkingTree"]
          ELSE IF ~validateBranchExists(repo, @.target)
          THEN [@ EXCEPT !.pc = "done", !.err = "UnknownRef"]
          ELSE IF getMergeBase(repo, getRevisionSHA(repo, @.target)[1], repo.head) = <<>>
          THEN [@ EXCEPT !.pc = "done", !.err = "NoMergeBase"]
          ELSE [@ EXCEPT !.pc = "mkdir"]]
    /\ UNCHANGED <<repo, stateDir>>
    /\ RaceFrame

\* saveState of process p as far as the fields of `written`
raceSave(p, written) ==
    saveState(stateDir, race[p].target,
              getRevisionSHA(repo, "HEAD")[1],
              getRevisionSHA(repo, race[p].target)[1],
              getCurrentBranch(repo), TRUE, written)

\* saveState: os.MkdirAll
RaceMkdir(p) ==
    /\ race[p].pc = "mkdir"
    /\ stateDir' = raceSave(p, {}).sd
    /\ race' = [race EXCEPT ![p].pc = "write", ![p].todo = StateFileNames]
    /\ UNCHANGED repo
    /\ RaceFrame

\* saveState: one os.WriteFile, which fails when the directory is gone
RaceWrite(p, n) ==
    /\ race[p].pc = "write"
    /\ n \in race[p].todo
    /\ IF ~stateDir.exists
       THEN /\ race' = [race EXCEPT ![p].pc = "done", ![p].err = "SaveFailed"]
            /\ UNCHANGED stateDir
       ELSE /\ stateDir' = raceSave(p, {n}).sd
            /\ race' = [race EXCEPT
                           ![p].todo = @ \ {n},
                           ![p].pc = IF race[p].todo = {n} THEN "merge" ELSE "write",
                           ![p].saved = race[p].todo = {n}]
    /\ UNCHANGED repo
    /\ RaceFrame

\* performMerge
RaceMerge(p) ==
    /\ race[p].pc = "merge"
    /\ \E m \in {performMerge(repo, race[p].target, TRUE)} :
          /\ repo' = m.repo
          /\ race' = [race EXCEPT ![p].pc = "finish", ![p].result = m.result]
    /\ UNCHANGED stateDir
    /\ RaceFrame

\* the switch on the merge result
RaceFinish(p) ==
    /\ race[p].pc = "finish"
    /\ CASE race[p].result = MergeConflict ->
              /\ race' = [race EXCEPT ![p].pc = "done", ![p].err = "Conflicts"]
              /\ UNCHANGED stateDir
         [] race[p].result = MergeError ->
              /\ race' = [race EXCEPT ![p].pc = "done", ![p].err = "MergeFailed"]
              /\ stateDir' = removeState(stateDir)
         [] race[p].result = MergeClean ->
              /\ race' = [race EXCEPT ![p].pc = "done"]
              /\ stateDir' = IF ~hasStagedOrUnstagedChanges(repo)
                             THEN removeState(stateDir) ELSE stateDir
    /\ UNCHANGED repo
    /\ RaceFrame

----------------------------------------------------------------------------
(* Initial states: a base commit with two branches off it, a clean checkout *)

BaseTrees == {[p \in Paths |-> IF p = "a" THEN 1 ELSE Absent]}

\* the side renames a base file: deletes it and adds its content elsewhere
RenamesFrom(base, side) ==
    \E d \in Paths, q \in Paths :
        /\ base[d] # Absent /\ side[d] = Absent
        /\ base[q] = Absent /\ side[q] = base[d]

\* the repository on the branch "feature", one commit ahead of the merge base,
\* with the target branch one commit ahead of it too, and nothing run so far
InitialState(base, ours, theirs) ==
    /\ repo = [commits |-> << [tree |-> base, parents |-> {}, msg |-> NoMessage],
                              [tree |-> ours, parents |-> {1}, msg |-> NoMessage],
                              [tree |-> theirs, parents |-> {1}, msg |-> NoMessage] >>,
               head |-> 2,
               dev |-> 3,
               index |-> ours,
               worktree |-> ours,
               mergeHead |-> <<>>]
    /\ stateDir = NoStateDir
    /\ last = Report("none", ExitSuccess, "", <<>>)
    /\ pre = <<>>
    /\ userOps = 0
    /\ sessions = 0
    /\ race = NoRace
    /\ store = NoStore

Init ==
    \E base \in BaseTrees, ours \in Trees, theirs \in Trees :
        /\ ~RenamesFrom(base, ours)
        /\ ~RenamesFrom(base, theirs)
        /\ InitialState(base, ours, theirs)

\* What can go wrong in one start: nothing, the directory creation, one of the
\* field writes (after the fields of `written`), or the merge command itself.
\* The fields are read one by one and only orig_head is read by abort, so the
\* partial records are represented by: nothing written, only orig_head written,
\* everything but orig_head written.
PartialWrites == {{}, {"orig_head"}, StateFileNames \ {"orig_head"}}

StartFaults ==
    {[mkdirOk |-> TRUE, written |-> StateFileNames, mergeOk |-> TRUE],
     [mkdirOk |-> FALSE, written |-> {}, mergeOk |-> TRUE],
     [mkdirOk |-> TRUE, written |-> StateFileNames, mergeOk |-> FALSE]}
    \cup {[mkdirOk |-> TRUE, written |-> w, mergeOk |-> TRUE] : w \in PartialWrites}

\* What can go wrong in one continue: nothing, or one step fails; a failing
\* write-back or staging loop has handled the paths of `done` before.
ContinueFaults ==
    {[fault |-> k, done |-> Paths] : k \in {"none", "diff", "read", "reset", "commit", "hook"}}
    \cup {[fault |-> k, done |-> d] : k \in {"write", "stage"}, d \in SUBSET Paths \ {Paths}}

Next ==
    \/ \E p \in Paths, c \in FileStates : UserEdit(p, c)
    \/ \E p \in Paths : UserAdd(p)
    \/ \E t \in TargetArgs, f \in StartFaults :
          Start(t, f.mkdirOk, f.written, f.mergeOk)
    \/ \E noVerify \in BOOLEAN, f \in ContinueFaults :
          Continue(noVerify, f.fault, f.done)
    \/ \E resetOk \in BOOLEAN : Abort(resetOk)
    \/ Status
    \/ \E op \in Commands : Outside(op)
    \/ \E targetBranch \in TargetArgs, indexed \in BOOLEAN,
          inTree \in SUBSET Paths, marked \in BOOLEAN :
            StartStopped(targetBranch, indexed, inTree, marked)

Spec == Init /\ [][Next]_vars

----------------------------------------------------------------------------
(* Histories in which the target branch renamed a file *)

\* the target branch moved a file of the merge base to another path, and the
\* current branch touched neither path: the merge is still decided per path
RenamedOnTarget(base, ours, theirs) ==
    /\ RenamesFrom(base, theirs)
    /\ \A d \in Paths, q \in Paths :
          (/\ base[d] # Absent /\ theirs[d] = Absent
           /\ base[q] = Absent /\ theirs[q] = base[d])
              => ours[d] = base[d] /\ ours[q] = base[q]

InitRenamed ==
    \E base \in BaseTrees, ours \in Trees, theirs \in Trees :
        /\ ~RenamesFrom(base, ours)
        /\ ~RenamesFrom(base, theirs) \/ RenamedOnTarget(base, ours, theirs)
        /\ InitialState(base, ours, theirs)

SpecRenamed == InitRenamed /\ [][Next]_vars

\* Two processes are started in the clean repository of Init, on branches
\* that resolve.
InitRace ==
    /\ \E base \in BaseTrees, ours \in Trees, theirs \in Trees :
          /\ ~RenamesFrom(base, ours)
          /\ ~RenamesFrom(base, theirs)
          /\ repo = [commits |-> << [tree |-> base, parents |-> {}, msg |-> NoMessage],
                                    [tree |-> ours, parents |-> {1}, msg |-> NoMessage],
                                    [tree |-> theirs, parents |-> {1}, msg |-> NoMessage] >>,
                     head |-> 2,
                     dev |-> 3,
                     index |-> ours,
                     worktree |-> ours,
                     mergeHead |-> <<>>]
    /\ stateDir = NoStateDir
    /\ last = Report("none", ExitSuccess, "", <<>>)
    /\ pre = <<>>
    /\ userOps = 0
    /\ sessions = 0
    /\ \E t \in {"dev", CurrentBranch} :
          race = [p \in Procs |-> Process("check", IF p = "p1" THEN "dev" ELSE t)]
    /\ store = NoStore

NextRace ==
    \/ \E p \in Procs : RaceCheck(p)
    \/ \E p \in Procs : RacePreconditions(p)
    \/ \E p \in Procs : RaceMkdir(p)
    \/ \E p \in Procs, n \in StateFileNames : RaceWrite(p, n)
    \/ \E p \in Procs : RaceMerge(p)
    \/ \E p \in Procs : RaceFinish(p)

SpecRace == InitRace /\ [][NextRace]_vars

\* The sessions the store is given: a revision git resolves, with or without
\* white space around it (":/fix " names the newest commit whose message
\* matches "fix "), the commits of the two revisions, the current branch.
StoreTexts == {"dev"} \cup {":/fix" \o t : t \in Whites}

InitStore ==
    /\ \E base \in BaseTrees :
          repo = [commits |-> << [tree |-> base, parents |-> {}, msg |-> NoMessage],
                                [tree |-> base, parents |-> {1}, msg |-> NoMessage],
                                [tree |-> base, parents |-> {1}, msg |-> NoMessage] >>,
                  head |-> 2,
                  dev |-> 3,
                  index |-> base,
                  worktree |-> base,
                  mergeHead |-> <<>>]
    /\ stateDir = NoStateDir
    /\ last = Report("none", ExitSuccess, "", <<>>)
    /\ pre = <<>>
    /\ userOps = 0
    /\ sessions = 0
    /\ race = NoRace
    /\ \E targetBranch \in StoreTexts, origHead \in 1..3, targetSHA \in 1..3 :
          store = [pc |-> "start",
                   session |-> [n \in StateFileNames |->
                       CASE n = "target" -> <<targetBranch>>
                         [] n = "orig_head" -> <<origHead>>
                         [] n = "target_sha" -> <<targetSHA>>
                         [] n = "current_branch" -> <<CurrentBranch>>],
                   loaded |-> NoFiles]

NextStore ==
    \/ \E f \in StartFaults : StoreSave(f.mkdirOk, f.written)
    \/ StoreLoad
    \/ StoreClear

SpecStore == InitStore /\ [][NextStore]_vars

\* Sessions during which the target branch moves; every step succeeds.
NextFrozen ==
    \/ \E p \in Paths, c \in FileStates : UserEdit(p, c)
    \/ \E p \in Paths : UserAdd(p)
    \/ \E t \in TargetArgs : Start(t, TRUE, StateFileNames, TRUE)
    \/ \E noVerify \in BOOLEAN : Continue(noVerify, "none", Paths)
    \/ \E c \in 1..MaxCommits : TargetMoves(c)

SpecFrozen == Init /\ [][NextFrozen]_vars

\* Sessions during which the user commits; every step succeeds.
NextCommitted ==
    \/ \E p \in Paths, c \in FileStates : UserEdit(p, c)
    \/ \E p \in Paths : UserAdd(p)
    \/ UserCommit
    \/ \E t \in TargetArgs : Start(t, TRUE, StateFileNames, TRUE)
    \/ \E noVerify \in BOOLEAN : ContinueNext(noVerify)
    \/ \E resetOk \in BOOLEAN : Abort(resetOk)

SpecCommitted == Init /\ [][NextCommitted]_vars

----------------------------------------------------------------------------
(* performMerge on its own *)

\* performMerge(targetBranch), called once; queryOk: git ls-files -u answers.
\* `last` holds what happened: err, whether git merge failed; steps, whether
\* the unmerged paths were asked for and whether that failed; merge, the result.
Merge(targetBranch, cmdOk, queryOk) ==
    /\ last.op # "performMerge"
    /\ \E m \in {performMergeWhen(repo, targetBranch, cmdOk, queryOk)} :
          /\ ~queryOk => ~m.ok
          /\ ~cmdOk => gitMerge(repo, targetBranch, TRUE).ok
          /\ repo' = m.repo
          /\ last' = [Report("performMerge", ExitSuccess,
                             IF m.ok THEN "" ELSE "MergeCommandFailed",
                             IF m.ok THEN <<"merge">>
                             ELSE IF queryOk THEN <<"merge", "lsFiles">>
                             ELSE <<"merge", "lsFilesFailed">>)
                         EXCEPT !.merge = m.result, !.target = targetBranch]
    /\ UNCHANGED <<stateDir, pre, userOps, sessions, race, store>>

NextMerge ==
    \/ \E p \in Paths, c \in FileStates : UserEdit(p, c)
    \/ \E p \in Paths : UserAdd(p)
    \/ \E t \in TargetArgs, cmdOk \in BOOLEAN, queryOk \in BOOLEAN :
          Merge(t, cmdOk, queryOk)

SpecMerge == Init /\ [][NextMerge]_vars

\* One session after another; every step succeeds.
NextSessions ==
    \/ \E p \in Paths, c \in FileStates : UserEdit(p, c)
    \/ \E p \in Paths : UserAdd(p)
    \/ \E t \in TargetArgs : StartNext(t)
    \/ \E noVerify \in BOOLEAN : Continue(noVerify, "none", Paths)
    \/ Abort(TRUE)

SpecSessions == Init /\ [][NextSessions]_vars

----------------------------------------------------------------------------
(* Properties.  `last` is what the invocation that led to the state did;    *)
(* in an action formula the unprimed variables are the state it ran in.     *)

\* C1 - Mutual exclusion: a start invoked while a session record exists
\* fails with the "already in progress" error, runs no step (no save, no
\* merge) and leaves the session record, all four fields of it, and the
\* repository exactly as they were.
C1_MutualExclusion ==
    [][(stateDir.exists /\ last'.op = "start")
          => /\ last'.err = "SessionAlreadyActive"
             /\ last'.exit = ExitError
             /\ last'.steps = <<>>
             /\ stateDir' = stateDir
             /\ repo' = repo]_vars

\* a start was refused while a session's merge was in progress
C1_Witness ==
    /\ last.op = "start" /\ last.err = "SessionAlreadyActive"
    /\ stateDir.exists /\ repo.mergeHead # <<>>

\* the tree the user has resolved to when continue starts: every tracked
\* path as it is in the working tree (what git add -u stages)
Resolved == [p \in Paths |-> IF repo.index[p] # Absent THEN repo.worktree[p] ELSE Absent]

\* C2 - Round trip: after a start that ended with conflicts, a continue that
\* commits adds exactly one commit to the branch, its only parent is the
\* HEAD start began at, and its tree is that commit's tree with the
\* resolution applied, that is, the resolved tree.
C2_RoundTrip ==
    [][(/\ pre # <<>> /\ pre[1].merge = MergeConflict
        /\ last'.op = "continue" /\ last'.exit = ExitSuccess
        /\ repo'.head # repo.head)
          => /\ Len(repo'.commits) = Len(repo.commits) + 1
             /\ repo'.head = Len(repo'.commits)
             /\ repo'.commits[repo'.head].parents = {pre[1].repo.head}
             /\ repo'.commits[repo'.head].tree = Resolved]_vars

\* C3 - Abort restores the pre-start state: after a successful abort HEAD is
\* the commit it was at when the session's start began, every path tracked
\* then has the index and working-tree content it had then, no merge is in
\* progress and no session record exists.
C3_AbortRestores ==
    (last.op = "abort" /\ last.exit = ExitSuccess)
        => /\ pre # <<>>
           /\ repo.head = pre[1].repo.head
           /\ \A p \in Paths :
                 pre[1].repo.index[p] # Absent
                     => /\ repo.index[p] = pre[1].repo.index[p]
                        /\ repo.worktree[p] = pre[1].repo.worktree[p]
           /\ repo.mergeHead = <<>>
           /\ ~stateDir.exists

\* a session that began with conflicts on a tracked path was aborted
C3_Witness ==
    /\ last.op = "abort" /\ last.exit = ExitSuccess
    /\ pre # <<>> /\ pre[1].merge = MergeConflict
    /\ \E p \in Paths : pre[1].repo.index[p] # Absent

\* C4 - Conflict gating: with a session record, a continue that finds an
\* unmerged path in the index returns the conflicts outcome (exit 1) whatever
\* else is staged, and runs none of its steps: nothing is staged, captured,
\* reset or committed, and the session record stays.
C4_ConflictGating ==
    [][(/\ stateDir.exists
        /\ \E p \in Paths : repo.index[p] = Unmerged
        /\ last'.op = "continue")
          => /\ last'.exit = ExitConflictsFound
             /\ last'.err = "Conflicts"
             /\ last'.steps = <<>>
             /\ repo' = repo
             /\ stateDir' = stateDir]_vars

\* continue was refused with one path unmerged and another staged with a change
C4_Witness ==
    /\ last.op = "continue" /\ last.exit = ExitConflictsFound
    /\ \E p \in Paths, q \in Paths :
          /\ repo.index[p] = Unmerged
          /\ repo.index[q] # Unmerged
          /\ repo.index[q] # repo.commits[repo.head].tree[q]

\* C5 - Deletion correctness: a path that the resolved tree deletes from HEAD
\* when continue runs is not read by continue, and after a continue that
\* commits it is absent from the working tree and from the new commit.
C5_DeletionCorrectness ==
    [][(/\ last'.op = "continue" /\ last'.exit = ExitSuccess
        /\ repo'.head # repo.head)
          => \A p \in Paths :
                (repo.commits[repo.head].tree[p] # Absent /\ Resolved[p] = Absent)
                    => /\ last'.contents[p] = Absent
                       /\ repo'.worktree[p] = Absent
                       /\ repo'.commits[repo'.head].tree[p] = Absent]_vars

\* C6 - Content preservation: every path that the resolved tree holds with a
\* content other than HEAD's is captured with the content its file has when
\* continue runs, and the commit continue creates stores that content.
C6_ContentPreservation ==
    [][(/\ last'.op = "continue" /\ last'.exit = ExitSuccess
        /\ repo'.head # repo.head)
          => \A p \in Paths :
                (Resolved[p] # Absent /\ Resolved[p] # repo.commits[repo.head].tree[p])
                    => /\ last'.contents[p] = repo.worktree[p]
                       /\ repo'.commits[repo'.head].tree[p] = repo.worktree[p]]_vars

\* a continue committed a resolution that changes one path and deletes another
C6_Witness ==
    /\ last.op = "continue" /\ last.exit = ExitSuccess
    /\ last.deleted # {}
    /\ \E p \in last.changed \ last.deleted :
          repo.commits[repo.head].tree[p] = last.contents[p]

C8_RetryAfterRejection ==
    [][(last.op = "continue" /\ last.err = "CommitFailed" /\ last'.op = "continue")
          => /\ last'.err # "DiffFailed"
                  => last'.changed = last.changed /\ last'.deleted = last.deleted
             /\ last'.exit = ExitSuccess
                  => /\ Len(repo'.commits) = Len(repo.commits) + 1
                     /\ repo'.head = Len(repo'.commits)
                     /\ <<repo.head>> = stateDir.files["orig_head"]
                     /\ repo'.commits[repo'.head].parents = {repo.head}
                     /\ repo'.commits[repo'.head].tree = repo.index
                     /\ ~stateDir'.exists]_vars

\* the retry of a rejected commit committed
C8_Witness ==
    /\ last.op = "continue" /\ last.retryOf = "CommitFailed"
    /\ last.exit = ExitSuccess
    /\ repo.commits[repo.head].tree = repo.index
    /\ ~stateDir.exists

\* C9 - No-op detection: when start's merge is clean and afterwards neither
\* the index nor a tracked file differs from HEAD, start returns success,
\* HEAD is the commit it was before the call and no session record exists.
C9_NoOpDetection ==
    (/\ last.op = "start" /\ last.merge = MergeClean
     /\ repo.index = repo.commits[repo.head].tree
     /\ \A p \in Paths : repo.index[p] # Absent => repo.worktree[p] = repo.index[p])
        => /\ last.exit = ExitSuccess
           /\ pre # <<>>
           /\ repo.head = pre[1].repo.head
           /\ ~stateDir.exists

\* a start whose merge of a branch that is not merged yet changed nothing
C9_Witness ==
    /\ last.op = "start" /\ last.merge = MergeClean /\ last.exit = ExitSuccess
    /\ repo.index = repo.commits[repo.head].tree
    /\ repo.mergeHead # <<>>
    /\ ~stateDir.exists

\* C10 - Session invariant, the part the claim spells out: no merge is in
\* progress in the repository while no session record exists.
C10_SessionInvariant == repo.mergeHead # <<>> => stateDir.exists

\* The session-level state: Idle without a record; with a record, the state
\* the start that saved it announced.
sessionState(sd, p) ==
    IF ~sd.exists THEN "Idle"
    ELSE IF p # <<>> /\ p[1].merge = MergeConflict THEN "ConflictPending"
    ELSE IF p # <<>> /\ p[1].merge = MergeClean THEN "ReadyToCommit"
    ELSE IF p # <<>> /\ p[1].merge = MergeStopped THEN "Stopped"
    ELSE "None"

\* C11 - Session-level state machine: the session state is always Idle,
\* ConflictPending or ReadyToCommit, and every step is Idle->ConflictPending
\* by a start that found conflicts, Idle->ReadyToCommit by a start whose clean
\* merge left changes, Idle->Idle, ConflictPending/ReadyToCommit->Idle by a
\* successful continue or abort, or a self-loop of a failed or refused
\* operation, of status or of the user's editing.  (Sessions whose start was
\* stopped by force are left aside.)
C11_StateMachine ==
    [][LET s == sessionState(stateDir, pre)
           t == sessionState(stateDir', pre')
       IN  (s # "Stopped" /\ t # "Stopped") =>
           /\ s \in {"Idle", "ConflictPending", "ReadyToCommit"}
           /\ t \in {"Idle", "ConflictPending", "ReadyToCommit"}
           /\ \/ s = "Idle" /\ t = "Idle"
              \/ /\ s = "Idle" /\ t = "ConflictPending"
                 /\ last'.op = "start" /\ last'.merge = MergeConflict
              \/ /\ s = "Idle" /\ t = "ReadyToCommit"
                 /\ last'.op = "start" /\ last'.merge = MergeClean
                 /\ hasUncommittedChanges(repo')
              \/ /\ s # "Idle" /\ t = "Idle"
                 /\ last'.op \in {"continue", "abort"}
                 /\ last'.exit = ExitSuccess
              \/ /\ s # "Idle" /\ t = s
                 /\ \/ last'.op \in {"status", "user"}
                    \/ last'.exit # ExitSuccess]_vars

\* C12 - Persist-before-merge: when the process of a start stops during or
\* after the merge step, the record it leaves is complete and its orig_head
\* is the HEAD from before the merge; and from then on, while that record
\* exists, an abort whose reset works succeeds: HEAD is that commit again,
\* every path tracked then is restored, no merge is in progress and the
\* record is gone.
C12_PersistBeforeMerge ==
    [][/\ (last.op = "start" /\ last.err = "Stopped")
            => /\ stateDir.exists
               /\ \A n \in StateFileNames : stateDir.files[n] # <<>>
               /\ stateDir.files["orig_head"] = <<pre[1].repo.head>>
       /\ (/\ pre # <<>> /\ pre[1].merge = MergeStopped /\ stateDir.exists
           /\ last'.op = "abort" /\ last'.err # "ResetFailed")
            => /\ last'.exit = ExitSuccess
               /\ ~stateDir'.exists
               /\ repo'.head = pre[1].repo.head
               /\ repo'.mergeHead = <<>>
               /\ \A p \in Paths :
                     pre[1].repo.index[p] # Absent
                         => /\ repo'.index[p] = pre[1].repo.index[p]
                            /\ repo'.worktree[p] = pre[1].repo.worktree[p]]_vars

\* the session of a start that was stopped in its merge step was aborted
C12_Witness ==
    /\ last.op = "abort" /\ last.exit = ExitSuccess
    /\ pre # <<>> /\ pre[1].merge = MergeStopped
    /\ repo = pre[1].repo

\* C13 - Atomic save: after a start whose save of the record failed part-way
\* (some of the four fields written, or none), no session record exists.
C13_AtomicSave ==
    (last.op = "start" /\ last.err = "SaveFailed") => ~stateDir.exists

\* C14 - Racing starts: when two starts have run at once in a repository with
\* no session, one of them is the loser: it failed with SessionAlreadyActive,
\* saved nothing and attempted no merge; and the fields of the session record
\* that is left are those of the other one.
C14_RacingStarts ==
    (/\ \A p \in Procs : race[p].pc = "done"
     /\ \E p \in Procs : race[p].overlapped)
        => \E w \in Procs :
              /\ race[Other(w)].err = "SessionAlreadyActive"
              /\ ~race[Other(w)].saved
              /\ race[Other(w)].result = ""
              /\ stateDir.exists =>
                    /\ stateDir.files["target"] = <<race[w].target>>
                    /\ stateDir.files["target_sha"] =
                          getRevisionSHA(repo, race[w].target)

\* C15 - Abort is always available: in every state with a session record, an
\* abort whose reset works succeeds, removes the record and leaves HEAD at
\* the commit it was at when the session's start began.
C15_AbortAvailable ==
    [][(stateDir.exists /\ last'.op = "abort" /\ last'.err # "ResetFailed")
            => /\ last'.exit = ExitSuccess
               /\ ~stateDir'.exists
               /\ pre # <<>>
               /\ repo'.head = pre[1].repo.head]_vars

\* C16 - Start precondition order: a start run in the repository reports
\* SessionAlreadyActive when a session record exists, whatever else is wrong;
\* DirtyWorkingTree when no record exists and something is staged, modified
\* or untracked, whether or not the target resolves; and the unknown target
\* when no record exists, the tree is clean and the target does not resolve.
C16_PreconditionOrder ==
    [][(last'.op = "start" /\ last'.err # "NotARepository") =>
       LET dirty == \E p \in Paths :
                       \/ repo.index[p] # repo.commits[repo.head].tree[p]
                       \/ repo.worktree[p] # repo.index[p]
           unknown == last'.target \notin {CurrentBranch, "dev"}
       IN  /\ stateDir.exists => last'.err = "SessionAlreadyActive"
           /\ (~stateDir.exists /\ dirty) => last'.err = "DirtyWorkingTree"
           /\ (~stateDir.exists /\ ~dirty /\ unknown) => last'.err = "UnknownRef"
           /\ last'.err \in {"SessionAlreadyActive", "DirtyWorkingTree", "UnknownRef"}
                 => last'.exit = ExitError]_vars

\* a start naming an unknown branch in a tree whose only change is an
\* untracked file was refused for the uncommitted changes
C16_Witness ==
    /\ last.op = "start" /\ last.err = "DirtyWorkingTree"
    /\ last.target = "nope"
    /\ ~stateDir.exists
    /\ repo.index = repo.commits[repo.head].tree
    /\ \E p \in Paths : repo.index[p] = Absent /\ repo.worktree[p] # Absent
    /\ \A p \in Paths : repo.index[p] # Absent => repo.worktree[p] = repo.index[p]

C18_NoSessionNoAction ==
    [][(/\ last'.op \in {"continue", "abort"} /\ last'.err # "NotARepository"
        /\ ~stateDir.exists)
            => /\ last'.err = "NoSession"
               /\ last'.exit = ExitError
               /\ last'.steps = <<>>
               /\ repo' = repo
               /\ ~stateDir'.exists]_vars

\* an abort without a session, in a repository where a merge is in progress
\* (left by a start that found nothing to anticipate)
C18_Witness ==
    /\ last.op = "abort" /\ last.err = "NoSession"
    /\ ~stateDir.exists
    /\ repo.mergeHead # <<>>

\* C19 - Status is read-only: a status invocation, in every state, leaves the
\* session record (complete, partly written or absent), HEAD, the index, the
\* working tree and the merge state as they were.
C19_StatusReadOnly ==
    [][last'.op = "status" => (repo' = repo /\ stateDir' = stateDir)]_vars

\* status shown for a record without orig_head, which is still there
C19_Witness ==
    /\ last.op = "status"
    /\ stateDir.exists
    /\ stateDir.files["orig_head"] = <<>>
    /\ stateDir.files["target"] # <<>>

\* C20 - Status always exits 0, as the claim states it: every status
\* invocation returns exit code 0.
C20_StatusAlwaysZero ==
    last.op = "status" => last.exit = ExitSuccess

\* C20, amended - status run inside a git repository returns exit code 0 with
\* no error, with or without a session record and whether or not the fields of
\* the record can be read; run outside a repository it fails with 'not a git
\* repository' and exit code 2.
C20_StatusExit ==
    last.op = "status" =>
        IF last.err = "NotARepository"
        THEN last.exit = ExitError
        ELSE last.exit = ExitSuccess /\ last.err = ""

\* status returned 0 for a record none of whose fields can be read
C20_Witness ==
    /\ last.op = "status" /\ last.exit = ExitSuccess
    /\ stateDir.exists
    /\ \A n \in StateFileNames : stateDir.files[n] = <<>>

\* C21 - Exit-code mapping: every invocation that runs to its return exits
\* with 0, 1 or 2.  It exits with 1 exactly when it is a start or a continue
\* returning the conflicts outcome, which is when a start's merge left
\* unmerged paths under a session record, or a continue found unmerged paths.
\* It exits with 0 exactly when it returns no error: a start whose merge was
\* clean, a continue or an abort after which no session record exists, a
\* status.  Every other outcome exits with 2.
C21_ExitCodeMapping ==
    (last.op \in Commands /\ last.err # "Stopped") =>
        LET unmerged == \E p \in Paths : repo.index[p] = Unmerged
            merged == \E i \in 1..Len(last.steps) : last.steps[i] = "merge"
        IN  /\ last.exit \in {ExitSuccess, ExitConflictsFound, ExitError}
            /\ last.exit = ExitConflictsFound
                  <=> (last.op \in {"start", "continue"} /\ last.err = "Conflicts")
            /\ last.exit = ExitConflictsFound => (unmerged /\ stateDir.exists)
            /\ (last.op = "start" /\ merged /\ unmerged)
                  => last.exit = ExitConflictsFound
            /\ (last.op = "continue" /\ unmerged)
                  => last.exit = ExitConflictsFound
            /\ last.exit = ExitSuccess <=> last.err = ""
            /\ (last.exit = ExitSuccess /\ last.op = "start")
                  => last.merge = MergeClean
            /\ (last.exit = ExitSuccess /\ last.op \in {"continue", "abort"})
                  => ~stateDir.exists
            /\ last.err \notin {"", "Conflicts"} => last.exit = ExitError

\* a continue refused because a path is still unmerged returned 1
C21_Witness ==
    /\ last.op = "continue" /\ last.exit = ExitConflictsFound
    /\ \E p \in Paths : repo.index[p] = Unmerged

\* C22 - After a start whose trial merge had no conflicts, the start has
\* returned success and no merge is in progress in the repository.
C22_CleanStartAbortsMerge ==
    (last.op = "start" /\ last.merge = MergeClean)
        => (last.exit = ExitSuccess /\ repo.mergeHead = <<>>)

\* C23 - Start never commits: whatever a start returns (conflicts, clean with
\* or without changes, merge error, refusal), HEAD is the commit it was
\* before the call and no commit was created; and a step that creates a
\* commit is a continue whose list of changed paths is not empty, creating
\* exactly one.
C23_StartNeverCommits ==
    [][/\ last'.op = "start"
            => (repo'.head = repo.head /\ repo'.commits = repo.commits)
       /\ repo'.commits # repo.commits
            => /\ last'.op = "continue"
               /\ last'.changed # {}
               /\ Len(repo'.commits) = Len(repo.commits) + 1]_vars

\* a start whose clean merge left changes staged, HEAD where it was
C23_Witness ==
    /\ last.op = "start" /\ last.merge = MergeClean
    /\ stateDir.exists
    /\ pre # <<>> /\ repo.head = pre[1].repo.head
    /\ repo.index # repo.commits[repo.head].tree

\* C24 - Frozen target revision: the commit a continue creates carries the
\* message naming the target branch of the session and the first ShortLen
\* characters of the name of the commit that branch pointed to when the
\* session's start began, wherever the branch points when continue runs; and
\* the recorded revision is still the one captured at start.
C24_FrozenTargetRevision ==
    [][(last'.op = "continue" /\ repo'.commits # repo.commits) =>
       LET new == repo'.commits[Len(repo'.commits)]
           atStart == IF stateDir.files["target"] = <<"dev">>
                      THEN pre[1].repo.dev ELSE pre[1].repo.head
       IN  /\ stateDir.files["target_sha"] = <<atStart>>
           /\ new.msg.target = stateDir.files["target"][1]
           /\ Len(new.msg.sha) = ShortLen
           /\ \A i \in 1..ShortLen : new.msg.sha[i] = shaText(atStart)[i]]_vars

\* a continue has committed in a session during which the target branch was
\* moved away from the commit it pointed to at start
C24_Witness ==
    /\ last.op = "continue" /\ last.exit = ExitSuccess
    /\ Len(repo.commits) > 3
    /\ pre # <<>> /\ repo.dev # pre[1].repo.dev
    /\ repo.commits[Len(repo.commits)].msg.target = "dev"

\* C25 - Sessions can follow one another: a continue that commits or finds
\* nothing to commit, a successful abort and a start that finds nothing to
\* anticipate leave no session record; and a start run while no session
\* record exists is never rejected with 'already in progress'.
C25_SessionsFollow ==
    [][/\ (/\ last'.exit = ExitSuccess
           /\ \/ last'.op \in {"continue", "abort"}
              \/ /\ last'.op = "start"
                 /\ repo'.index = repo'.commits[repo'.head].tree
                 /\ \A p \in Paths : repo'.index[p] # Absent
                                        => repo'.worktree[p] = repo'.index[p])
            => ~stateDir'.exists
       /\ (~stateDir.exists /\ last'.op = "start")
            => last'.err # "SessionAlreadyActive"]_vars

\* a second session was opened after the commit of a first one
C25_Witness ==
    /\ last.op = "start" /\ last.err \in {"", "Conflicts"}
    /\ stateDir.exists
    /\ sessions = MaxSessions + 1
    /\ Len(repo.commits) > 3
    /\ repo.commits[repo.head].msg # NoMessage

\* C26 - Store round trip: the four fields loaded after a successful save
\* are exactly the values saved; a session record exists after a successful
\* save and none exists after a clear.
C26_StoreRoundTrip ==
    /\ store.pc = "loaded"
          => \A n \in StateFileNames : store.loaded[n] = store.session[n]
    /\ store.pc \in {"saved", "loaded"} => stateDir.exists
    /\ store.pc = "cleared" => ~stateDir.exists

\* C27 - Replay failures keep the session: a continue that runs with a
\* session record and fails, in the reset, the write-back, the staging or the
\* commit as anywhere else, leaves the record as it was; the record is gone
\* after a continue only when the continue succeeded and either created a
\* commit or found no changed path.
C27_ReplayKeepsSession ==
    [][(last'.op = "continue" /\ stateDir.exists) =>
           /\ last'.exit # ExitSuccess => stateDir' = stateDir
           /\ ~stateDir'.exists
                 => /\ last'.exit = ExitSuccess
                    /\ \/ Len(repo'.commits) = Len(repo.commits) + 1
                       \/ last'.changed = {} /\ repo'.commits = repo.commits]_vars

\* a continue failed while staging, after the reset and the write-back, and
\* the complete record is still there
C27_Witness ==
    /\ last.op = "continue" /\ last.err = "StageFailed"
    /\ stateDir.exists
    /\ \A n \in StateFileNames : stateDir.files[n] # <<>>
    /\ repo.mergeHead = <<>>

\* C28 - Merge error clears the session: a start whose trial merge failed
\* without leaving unmerged paths ends with exit 2 and the merge failure, and
\* no session record exists afterwards although the start had saved one; no
\* merge is in progress and HEAD is where it was.
C28_MergeErrorClearsSession ==
    [][(last'.op = "start" /\ last'.merge = MergeError) =>
           /\ last'.exit = ExitError
           /\ last'.err = "MergeFailed"
           /\ last'.steps = <<"saveState", "merge", "removeState">>
           /\ ~stateDir'.exists
           /\ ~isAnticipateInProgress(stateDir')
           /\ ~hasUnmergedFiles(repo')
           /\ repo'.head = repo.head]_vars

\* a start ended with the merge failure after saving its record
C28_Witness ==
    /\ last.op = "start" /\ last.merge = MergeError
    /\ last.err = "MergeFailed"
    /\ last.steps[1] = "saveState"
    /\ ~stateDir.exists

\* C29 - Conflict outcome: a start whose trial merge left unmerged paths ends
\* with exit 1 and the conflicts result; the session record exists with the
\* target, the HEAD, the target revision and the branch of the moment of the
\* start; the merge is in progress on the target revision, every unmerged
\* path has a file in the working tree, and HEAD and the commits are as
\* before.
C29_ConflictOutcome ==
    [][(last'.op = "start" /\ last'.merge = MergeConflict) =>
           /\ last'.exit = ExitConflictsFound
           /\ last'.err = "Conflicts"
           /\ stateDir'.exists
           /\ stateDir'.files["target"] = <<last'.target>>
           /\ stateDir'.files["orig_head"] = <<repo.head>>
           /\ stateDir'.files["target_sha"] = getRevisionSHA(repo, last'.target)
           /\ stateDir'.files["current_branch"] = <<getCurrentBranch(repo)>>
           /\ repo'.mergeHead = getRevisionSHA(repo, last'.target)
           /\ hasUnmergedFiles(repo')
           /\ \A p \in Paths :
                 repo'.index[p] = Unmerged => repo'.worktree[p] # Absent
           /\ repo'.head = repo.head
           /\ repo'.commits = repo.commits]_vars

\* a start ended on conflicts: record present, merge in progress, a path unmerged
C29_Witness ==
    /\ last.op = "start" /\ last.merge = MergeConflict
    /\ last.exit = ExitConflictsFound
    /\ stateDir.exists
    /\ repo.mergeHead # <<>>
    /\ hasUnmergedFilesPresent(repo)

\* C30 - Clean-with-changes outcome: a start whose trial merge was clean and
\* left the index or the working tree different from HEAD ends with exit 0,
\* the session record present, no unmerged path, the merge still in progress
\* and its changes staged, and no commit made; a continue that follows at once
\* and succeeds adds exactly one commit, whose only parent is the original
\* HEAD and whose tree is the one that was staged, and HEAD is that commit.
C30_CleanWithChanges ==
    [][/\ (/\ last'.op = "start" /\ last'.merge = MergeClean
           /\ (repo'.index # HeadTree(repo') \/ repo'.worktree # repo'.index))
            => /\ last'.exit = ExitSuccess
               /\ stateDir'.exists
               /\ \A n \in StateFileNames : stateDir'.files[n] # <<>>
               /\ stateDir'.files["orig_head"] = <<repo.head>>
               /\ ~hasUnmergedFiles(repo')
               /\ repo'.mergeHead # <<>>
               /\ repo'.index # HeadTree(repo')
               /\ repo'.worktree = repo'.index
               /\ repo'.head = repo.head
               /\ repo'.commits = repo.commits
       /\ (/\ last.op = "start" /\ last.merge = MergeClean /\ stateDir.exists
           /\ last'.op = "continue" /\ last'.exit = ExitSuccess)
            => /\ Len(repo'.commits) = Len(repo.commits) + 1
               /\ repo'.head = Len(repo'.commits)
               /\ repo'.commits[repo'.head].parents = {repo.head}
               /\ repo'.commits[repo'.head].tree = repo.index
               /\ SubSeq(repo'.commits, 1, Len(repo.commits)) = repo.commits
               /\ ~stateDir'.exists]_vars

\* C31 - Continue no-op short-circuit: a continue that runs with a session
\* record, finds no unmerged path and lists no changed path returns success
\* and creates no commit; afterwards no session record exists, no merge is in
\* progress, and HEAD is the recorded original HEAD.
C31_ContinueNoOp ==
    [][(/\ last'.op = "continue" /\ stateDir.exists
        /\ last'.exit = ExitSuccess /\ last'.changed = {})
           => /\ repo'.commits = repo.commits
              /\ ~stateDir'.exists
              /\ repo'.mergeHead = <<>>
              /\ repo'.head = stateDir.files["orig_head"][1]]_vars

\* C32 - Capture before discard: in a continue that lists changed paths, the
\* snapshot holds, for every changed path that is not deleted, the content
\* the working tree had when continue began, and it is taken before the merge
\* is aborted and before the reset; a continue whose read of such a file
\* fails returns an error with the merge not aborted, HEAD and the working
\* tree as they were, and the session record in place.
C32_CaptureBeforeDiscard ==
    [][(last'.op = "continue" /\ stateDir.exists) =>
           /\ \A i \in 1..Len(last'.steps) :
                 (last'.steps[i] \in {"abortMerge", "reset"} /\ last'.changed # {})
                     => \E j \in 1..(i - 1) : last'.steps[j] = "capture"
           /\ (\E j \in 1..Len(last'.steps) : last'.steps[j] = "capture")
                 => \A p \in Paths :
                       last'.contents[p] =
                           IF p \in last'.changed \ last'.deleted
                           THEN repo.worktree[p] ELSE Absent
           /\ last'.err = "ReadFileFailed"
                 => /\ last'.exit = ExitError
                    /\ stateDir' = stateDir
                    /\ repo'.mergeHead = repo.mergeHead
                    /\ repo'.head = repo.head
                    /\ repo'.worktree = repo.worktree
                    /\ \A i \in 1..Len(last'.steps) :
                          last'.steps[i] \notin {"abortMerge", "reset"}]_vars

\* a continue failed reading a resolved file: the merge is still in progress
\* and the record is there
C32_Witness ==
    /\ last.op = "continue" /\ last.err = "ReadFileFailed"
    /\ last.changed \ last.deleted # {}
    /\ repo.mergeHead # <<>>
    /\ stateDir.exists

\* C33 - Replay ordering and exactness: where no command is made to fail, a continue
\* that has reset to the original HEAD goes on to write back, then to remove
\* the deleted files, then to stage, in that order, and reaches the commit;
\* the index and the working tree it leaves differ from the original HEAD on
\* exactly the changed paths, each path being absent if it was deleted and
\* holding its resolved content otherwise.
C33_ReplayExact ==
    [][(/\ last'.op = "continue" /\ stateDir.exists
        /\ \E i \in 1..Len(last'.steps) : last'.steps[i] = "reset")
           => LET orig == repo.commits[stateDir.files["orig_head"][1]].tree
                  resolved == [p \in Paths |->
                                 IF repo.index[p] # Absent THEN repo.worktree[p]
                                 ELSE Absent]
              IN  /\ \E i, j, k, l \in 1..Len(last'.steps) :
                        /\ i < j /\ j < k /\ k < l
                        /\ last'.steps[i] = "write" /\ last'.steps[j] = "remove"
                        /\ last'.steps[k] = "stage" /\ last'.steps[l] = "commit"
                  /\ last'.err \notin {"WriteFileFailed", "StageFailed"}
                  /\ \A p \in Paths :
                        /\ p \in last'.changed
                              => /\ repo'.index[p] = resolved[p]
                                 /\ repo'.worktree[p] = resolved[p]
                                 /\ repo'.index[p] # orig[p]
                                 /\ (p \in last'.deleted <=> resolved[p] = Absent)
                        /\ p \notin last'.changed => repo'.index[p] = orig[p]]_vars

\* C34 - Snapshot and Deletion Set partition changedPaths: after a continue
\* that took its snapshot, the paths with captured content and the deleted
\* paths have no path in common, every deleted path is a changed path, and
\* the two sets together are the changed paths.
C34_SnapshotPartition ==
    (/\ last.op = "continue"
     /\ \E i \in 1..Len(last.steps) : last.steps[i] = "capture")
        => LET captured == {p \in Paths : last.contents[p] # Absent}
           IN  /\ captured \cap last.deleted = {}
               /\ last.deleted \subseteq last.changed
               /\ captured \cup last.deleted = last.changed

\* a continue captured one path and recorded another one as deleted
C34_Witness ==
    /\ last.op = "continue"
    /\ \E i \in 1..Len(last.steps) : last.steps[i] = "capture"
    /\ last.deleted # {}
    /\ \E p \in last.changed : last.contents[p] # Absent

\* C35 - Unstaged edits are captured: when a continue that ends in a commit
\* begins with a tracked path whose working-tree state is not the staged one
\* (edited or deleted without git add, or edited again after git add), the
\* commit holds the working-tree state of that path, and the path is among
\* the changed paths if that state differs from the original HEAD.
C35_UnstagedCaptured ==
    [][(/\ last'.op = "continue" /\ stateDir.exists
        /\ last'.exit = ExitSuccess
        /\ Len(repo'.commits) = Len(repo.commits) + 1)
           => \A p \in Paths :
                 (repo.index[p] # Absent /\ repo.worktree[p] # repo.index[p])
                     => /\ repo'.commits[repo'.head].tree[p] = repo.worktree[p]
                        /\ repo.worktree[p]
                              # repo.commits[stateDir.files["orig_head"][1]].tree[p]
                                 => p \in last'.changed]_vars

\* C36 - changedPaths is relative to the original tip: a continue that runs
\* with a session record and lists the changed paths, whether or not HEAD is
\* still the recorded original HEAD, uses as changed paths the paths whose
\* index entry, once the index is reconciled with the working tree, differs
\* from the tree of the recorded original HEAD.
C36_ChangedAgainstOriginal ==
    [][(/\ last'.op = "continue" /\ stateDir.exists
        /\ Len(last'.steps) > 0 /\ last'.err # "DiffFailed")
           => LET orig == repo.commits[stateDir.files["orig_head"][1]].tree
                  staged == [p \in Paths |->
                               IF repo.index[p] # Absent THEN repo.worktree[p]
                               ELSE Absent]
              IN  last'.changed = {p \in Paths : staged[p] # orig[p]}]_vars

\* C37 - Abort step order and failure: an abort that runs with a session
\* record and succeeds has run the merge abort, then the reset, then the
\* removal of the record, and leaves HEAD, the index and the tracked files at
\* the recorded original HEAD with no merge in progress, also when no merge
\* was there to abort; an abort whose reset fails, or which cannot read the
\* original HEAD, returns exit 2 and leaves the record as it was; the record
\* is gone after an abort only when the reset has been done.
C37_AbortOrder ==
    [][(last'.op = "abort" /\ stateDir.exists) =>
           /\ last'.exit = ExitSuccess
                 => /\ last'.steps = <<"abortMerge", "reset", "removeState">>
                    /\ ~stateDir'.exists
           /\ last'.exit # ExitSuccess
                 => /\ last'.exit = ExitError
                    /\ last'.err \in {"ResetFailed", "ReadStateFailed"}
                    /\ stateDir' = stateDir
                    /\ repo'.head = repo.head
           /\ stateDir.files["orig_head"] = <<>> => last'.err = "ReadStateFailed"
           /\ ~stateDir'.exists
                 => LET c == stateDir.files["orig_head"][1]
                    IN  /\ last'.exit = ExitSuccess
                        /\ repo'.head = c
                        /\ repo'.index = repo.commits[c].tree
                        /\ \A p \in Paths :
                              repo'.index[p] # Absent
                                  => repo'.worktree[p] = repo'.index[p]
                        /\ repo'.mergeHead = <<>>]_vars

\* an abort's reset failed: exit 2, and the complete record is still there
C37_Witness ==
    /\ last.op = "abort" /\ last.err = "ResetFailed" /\ last.exit = ExitError
    /\ stateDir.exists
    /\ stateDir.files["orig_head"] # <<>>

\* C38 - Write-once session fields: while a session record exists, a status,
\* a start, a continue that does not succeed and an abort that does not
\* succeed leave the record and its four fields as they are, and so do the
\* user's own steps; the fields of a record that is still there after any
\* step are the ones it had before.
C38_WriteOnce ==
    [][stateDir.exists =>
           /\ (\/ last'.op \in {"status", "start", "user"}
               \/ last'.op = "continue" /\ last'.exit # ExitSuccess
               \/ last'.op = "abort" /\ last'.exit # ExitSuccess)
                 => stateDir' = stateDir
           /\ stateDir'.exists => stateDir'.files = stateDir.files]_vars

\* a start with another target was refused while a session exists: the
\* record still names the first target
C38_Witness ==
    /\ last.op = "start" /\ last.err = "SessionAlreadyActive"
    /\ stateDir.exists
    /\ last.target = "feature"
    /\ stateDir.files["target"] = <<"dev">>
    /\ stateDir.files["orig_head"] # <<>>

\* C39 - A refused continue changes nothing: a continue that returns the
\* conflicts outcome (exit 1) ran with a session record and an unmerged path,
\* and left the index, the working tree, HEAD, the commits, the merge in
\* progress and the session record exactly as they were.
C39_RefusedContinueFrame ==
    [][(last'.op = "continue" /\ last'.exit = ExitConflictsFound) =>
           /\ stateDir.exists
           /\ hasUnmergedFiles(repo)
           /\ repo'.index = repo.index
           /\ repo'.worktree = repo.worktree
           /\ repo'.head = repo.head
           /\ repo'.commits = repo.commits
           /\ repo'.mergeHead = repo.mergeHead
           /\ stateDir' = stateDir]_vars

\* continue was refused while a tracked file had an edit that was not staged:
\* the edit is still unstaged and the merge still in progress
C39_Witness ==
    /\ last.op = "continue" /\ last.exit = ExitConflictsFound
    /\ stateDir.exists
    /\ repo.mergeHead # <<>>
    /\ \E p \in Paths :
          /\ repo.index[p] \notin {Absent, Unmerged}
          /\ repo.worktree[p] # repo.index[p]

\* C40 - Merge outcome classification: performMerge returns Clean exactly
\* when git merge succeeded; Conflict exactly when git merge failed and the
\* query for unmerged paths answered with at least one entry; Error exactly
\* in the remaining cases: git merge failed and the query reported no entry
\* or failed itself.
C40_MergeClassification ==
    last.op = "performMerge" =>
        LET failed == last.err = "MergeCommandFailed"
            reported == /\ last.steps = <<"merge", "lsFiles">>
                        /\ \E p \in Paths : repo.index[p] = Unmerged
        IN  /\ last.merge \in {MergeClean, MergeConflict, MergeError}
            /\ last.merge = MergeClean <=> ~failed
            /\ last.merge = MergeConflict <=> (failed /\ reported)
            /\ last.merge = MergeError <=> (failed /\ ~reported)

\* git merge stopped on conflicts and the query for unmerged paths failed:
\* the result is Error although the index holds an unmerged path
C40_Witness ==
    /\ last.op = "performMerge"
    /\ last.steps = <<"merge", "lsFilesFailed">>
    /\ \E p \in Paths : repo.index[p] = Unmerged
    /\ last.merge = MergeError

=============================================================================
